---- MODULE Spec2Model ----
(***************************************************************************)
(* Model of the pdf-rag batch pipeline (src/pdf_scraping):                 *)
(*   main.py                 discovery, download_and_filter_pdfs, run()    *)
(*   arxiv_downloader.py     ArxivPaperDownloader.download_and_filter_pdfs *)
(*   research_processor.py   upload_pdfs, generate_responses,              *)
(*                           convert_responses_to_json, combine_json_files *)
(* The three folders (pdfs, responses, json) and combined_data.json are    *)
(* files on disk: they survive from one execution of main.py to the next   *)
(* (os.makedirs(..., exist_ok=True), nothing is ever deleted), so the      *)
(* model lets main.py be executed again on the folders an earlier          *)
(* execution left behind.                                                  *)
(***************************************************************************)
EXTENDS Integers, Sequences, FiniteSets, TLC

\* ------------------------------------------------------------ bounds
\* Rows of the metadata DataFrame (ids 1..n in discovery order).
MaxDocs == 3
\* The retention cap: the source fixes it at 100 (arxiv_downloader.py:83);
\* the model scales it down so that the early exit is reached.
QuotaCap == 2
\* Largest page count a fetched PDF may measure, and largest max_pages.
MaxPageCount == 2
\* Distinct 'data' payloads the extraction service may return.
MaxPayload == 2
\* Executions of main.py on the same working directory.
MaxRuns == 2

Ids == 1..MaxDocs
PageCounts == 0..MaxPageCount
Payloads == 1..MaxPayload

\* ------------------------------------------------------------ JSON texts
\* A text file's content, abstracted to what json.loads makes of it:
\*   kind "notjson"  json.loads raises JSONDecodeError
\*   kind "nodata"   valid JSON with no 'data' member (x['data'] raises)
\*   kind "doc"      a JSON object {"data": <payload>}
\* fmt tells the extraction service's own layout from json.dump(indent=4).
\* data is 0 where there is no payload.
DecodeError == [ok |-> FALSE, hasData |-> FALSE, data |-> 0]
RawTexts ==
    {[kind |-> "notjson", data |-> 0, fmt |-> "raw"],
     [kind |-> "nodata", data |-> 0, fmt |-> "raw"]}
    \cup {[kind |-> "doc", data |-> p, fmt |-> "raw"] : p \in Payloads}

\* json.loads / json.load: the parsed value, or DecodeError.
JsonLoads(text) ==
    IF text.kind = "notjson" THEN DecodeError
    ELSE [ok |-> TRUE, hasData |-> (text.kind = "doc"), data |-> text.data]

\* json.dump(value, indent=4): the text written for a parsed value.
JsonDump(value) ==
    [kind |-> IF value.hasData THEN "doc" ELSE "nodata",
     data |-> value.data, fmt |-> "indent4"]

EmptyMap == [d \in {} |-> 0]
NoFile == [exists |-> FALSE, map |-> EmptyMap]

VARIABLES
    pc,               \* position of main.py
    runs,             \* executions of main.py started so far
    pdf_folder,       \* ids d with a file pdfs/d.pdf
    response_folder,  \* id -> text of responses/d.txt
    json_folder,      \* id -> text of json/d.json
    corpus,           \* combined_data.json: NoFile, or its id -> payload map
    n,                \* len(df): the rows are ids 1..n
    max_pages,        \* self.max_pages
    pos,              \* rows the for loop has taken from df.iterrows()
    valid_pdf_count,  \* the quota counter
    pdf_page_counts,  \* the page-count list
    fetched,          \* ids whose pdf_url was requested (requests.get)
    warned,           \* ids logged "Failed to process" (the except branch)
    downloaded,       \* ids whose binary this call wrote to pdfs/
    filtered_df,      \* the returned DataFrame: ids in row order
    todo,             \* uploaded files generate_responses has yet to take
    calls,            \* generate_content calls made by this execution
    delay_pending,    \* a call ended and no time.sleep has followed it
    extracted,        \* ids whose response this execution wrote
    extract_errors,   \* ids logged "Error generating response"
    json_written,     \* ids whose json/d.json this execution wrote
    decode_errors,    \* ids logged "JSON decoding error"
    agg_store,        \* json_folder as the last completed aggregation read it
    agg_prev          \* combined_data.json as that aggregation found it

disk == <<pdf_folder, response_folder, json_folder, corpus>>
dl == <<n, max_pages, pos, valid_pdf_count, pdf_page_counts, fetched, warned,
        downloaded, filtered_df>>
ex == <<todo, calls, delay_pending, extracted, extract_errors>>
nz == <<json_written, decode_errors>>
ag == <<agg_store, agg_prev>>
vars == <<pc, runs, disk, dl, ex, nz, ag>>

\* ------------------------------------------------------------ helpers
\* f with key k set to v (a file written, a dict entry assigned).
Put(f, k, v) == [d \in DOMAIN f \cup {k} |-> IF d = k THEN v ELSE f[d]]

RECURSIVE SelectRows(_, _, _)
\* df[df['pdf_page_count'] <= max_pages] on rows i.., in row order.
SelectRows(counts, mp, i) ==
    IF i > Len(counts) THEN <<>>
    ELSE (IF counts[i] <= mp THEN <<i>> ELSE <<>>) \o SelectRows(counts, mp, i + 1)

Range(s) == {s[i] : i \in DOMAIN s}

\* ------------------------------------------------------------ download
\* The value appended to pdf_page_counts in the except branch.
FailedPageCount == 0

\* Mutation of Retainable (C3): the bound is off by one.
RetainableOffByOne(page_count, mp) == page_count <= mp + 1

\* if page_count <= self.max_pages: the binary is written and counted.
Retainable(page_count, mp) == page_count <= mp

\* Mutation of QuotaReached (C2): a strict comparison.
QuotaExceeded(count) == count > QuotaCap

\* Mutation of QuotaReached (C4): the loop never breaks.
QuotaIgnored(count) == FALSE

\* if valid_pdf_count >= 100: break
QuotaReached(count) == count >= QuotaCap

\* The filter of the trimmed DataFrame that is returned.
FilterTrimmed(counts, mp) == SelectRows(counts, mp, 1)

RunLocalsInit ==
    /\ n = 0 /\ max_pages = 0 /\ pos = 0
    /\ valid_pdf_count = 0 /\ pdf_page_counts = <<>>
    /\ fetched = {} /\ warned = {} /\ downloaded = {} /\ filtered_df = <<>>
    /\ todo = {} /\ calls = 0 /\ delay_pending = FALSE
    /\ extracted = {} /\ extract_errors = {}
    /\ json_written = {} /\ decode_errors = {}

Init ==
    /\ pc = "start" /\ runs = 0
    /\ pdf_folder = {} /\ response_folder = EmptyMap /\ json_folder = EmptyMap
    /\ corpus = NoFile
    /\ agg_store = EmptyMap /\ agg_prev = NoFile
    /\ RunLocalsInit

\* main.py up to the call of download_and_filter_pdfs: the downloader is
\* constructed (max_pages), the papers are fetched and tabulated (n rows).
Discover ==
    /\ pc \in {"start", "done", "upload_raised", "combine_raised"}
    /\ runs < MaxRuns
    /\ runs' = runs + 1
    /\ \E rows \in 0..MaxDocs, mp \in 0..MaxPageCount :
          n' = rows /\ max_pages' = mp
    /\ pos' = 0 /\ valid_pdf_count' = 0 /\ pdf_page_counts' = <<>>
    /\ fetched' = {} /\ warned' = {} /\ downloaded' = {} /\ filtered_df' = <<>>
    /\ todo' = {} /\ calls' = 0 /\ delay_pending' = FALSE
    /\ extracted' = {} /\ extract_errors' = {}
    /\ json_written' = {} /\ decode_errors' = {}
    /\ pc' = "download"
    /\ UNCHANGED <<disk, ag>>

\* Mutation of DownloadFails (C11): the except branch logs the failure and
\* appends nothing to pdf_page_counts.
DownloadFailsNoAppend ==
    /\ pc = "download" /\ pos < n
    /\ pos' = pos + 1
    /\ fetched' = fetched \cup {pos + 1}
    /\ warned' = warned \cup {pos + 1}
    /\ UNCHANGED <<pc, runs, disk, n, max_pages, valid_pdf_count,
                   pdf_page_counts, downloaded, filtered_df, ex, nz, ag>>

\* One iteration of the for loop whose fetch or PDF parse raises (lines
\* 71-74: requests.get, raise_for_status, PdfReader, len(pages)); the write
\* of the file is taken to succeed.
DownloadFails ==
    /\ pc = "download" /\ pos < n
    /\ pos' = pos + 1
    /\ fetched' = fetched \cup {pos + 1}
    /\ warned' = warned \cup {pos + 1}
    /\ pdf_page_counts' = Append(pdf_page_counts, FailedPageCount)
    /\ UNCHANGED <<pc, runs, disk, n, max_pages, valid_pdf_count, downloaded,
                   filtered_df, ex, nz, ag>>

\* One iteration of the for loop whose fetch and parse succeed.
DownloadMeasures ==
    /\ pc = "download" /\ pos < n
    /\ \E page_count \in PageCounts :
          LET keep == Retainable(page_count, max_pages)
              count == IF keep THEN valid_pdf_count + 1 ELSE valid_pdf_count
          IN  /\ pos' = pos + 1
              /\ fetched' = fetched \cup {pos + 1}
              /\ pdf_folder' = IF keep THEN pdf_folder \cup {pos + 1} ELSE pdf_folder
              /\ downloaded' = IF keep THEN downloaded \cup {pos + 1} ELSE downloaded
              /\ valid_pdf_count' = count
              /\ pdf_page_counts' = Append(pdf_page_counts, page_count)
              /\ pc' = IF QuotaReached(count) THEN "trim" ELSE "download"
    /\ UNCHANGED <<runs, response_folder, json_folder, corpus, n, max_pages,
                   warned, filtered_df, ex, nz, ag>>

\* The iterator is exhausted.
DownloadLoopEnd ==
    /\ pc = "download" /\ pos = n
    /\ pc' = "trim"
    /\ UNCHANGED <<runs, disk, dl, ex, nz, ag>>

\* After the loop: trim df to the processed rows, attach the page counts,
\* filter, return; main.py writes the result to filtered_pdfs.csv.
TrimAndFilter ==
    /\ pc = "trim"
    /\ filtered_df' = FilterTrimmed(pdf_page_counts, max_pages)
    /\ pc' = "returned"
    /\ UNCHANGED <<runs, disk, n, max_pages, pos, valid_pdf_count,
                   pdf_page_counts, fetched, warned, downloaded, ex, nz, ag>>

\* main.py after the call: filtered_df.to_csv, then the processor is
\* constructed and run() is entered. The frame of download_and_filter_pdfs
\* (its loop position, counter and page-count list) is gone; what stays is
\* the returned DataFrame and the files the call wrote.
EnterRun ==
    /\ pc = "returned"
    /\ pos' = 0 /\ valid_pdf_count' = 0 /\ pdf_page_counts' = <<>>
    /\ fetched' = {} /\ warned' = {}
    /\ pc' = "upload"
    /\ UNCHANGED <<runs, disk, n, max_pages, downloaded, filtered_df, ex, nz, ag>>

\* ------------------------------------------------------------ extraction
\* upload_pdfs: every f in os.listdir(pdf_folder) that ends in '.pdf'.
PdfFiles(folder) == folder

\* time.sleep(15) is the last statement of the try block: it runs when the
\* call and the write of the response succeeded, not in the except branch.
SleepsAfter(raised) == ~raised

\* run() calls upload_pdfs; genai.upload_file is not guarded, so an upload
\* that raises ends run() and main.py with the exception.
UploadPdfs ==
    /\ pc = "upload"
    /\ \/ /\ todo' = PdfFiles(pdf_folder)
          /\ pc' = "generate"
       \/ /\ PdfFiles(pdf_folder) # {}
          /\ todo' = {}
          /\ pc' = "upload_raised"
    /\ calls' = 0 /\ delay_pending' = FALSE
    /\ extracted' = {} /\ extract_errors' = {}
    /\ UNCHANGED <<runs, disk, dl, nz, ag>>

\* One iteration of generate_responses whose generate_content call (or the
\* read of response.text) raises: logged, nothing written.
GenerateRaises ==
    /\ pc = "generate"
    /\ \E pdf \in todo :
          /\ todo' = todo \ {pdf}
          /\ extract_errors' = extract_errors \cup {pdf}
    /\ calls' = calls + 1
    /\ delay_pending' = ~SleepsAfter(TRUE)
    /\ UNCHANGED <<pc, runs, disk, dl, extracted, nz, ag>>

\* One iteration of generate_responses whose call returns a text.
GenerateWrites ==
    /\ pc = "generate"
    /\ \E pdf \in todo, text \in RawTexts :
          /\ todo' = todo \ {pdf}
          /\ response_folder' = Put(response_folder, pdf, text)
          /\ extracted' = extracted \cup {pdf}
    /\ calls' = calls + 1
    /\ delay_pending' = ~SleepsAfter(FALSE)
    /\ UNCHANGED <<pc, runs, pdf_folder, json_folder, corpus, dl,
                   extract_errors, nz, ag>>

\* generate_responses returns.
GenerateEnd ==
    /\ pc = "generate" /\ todo = {}
    /\ pc' = "convert"
    /\ UNCHANGED <<runs, disk, dl, ex, nz, ag>>

\* ------------------------------------------------------------ normalizer
\* except json.JSONDecodeError: the only exception the loop body catches.
DecodeCaught(value) == ~value.ok

RECURSIVE ConvertFiles(_, _, _)
\* The loop of convert_responses_to_json over the '.txt' files `pending`,
\* `out` being the json folder, the files written and the errors logged.
ConvertFiles(pending, responses, out) ==
    IF pending = {} THEN out
    ELSE LET text_file == CHOOSE f \in pending : TRUE
             json_data == JsonLoads(responses[text_file])
         IN  IF DecodeCaught(json_data)
             THEN ConvertFiles(pending \ {text_file}, responses,
                      [out EXCEPT !.errors = @ \cup {text_file}])
             ELSE ConvertFiles(pending \ {text_file}, responses,
                      [store |-> Put(out.store, text_file, JsonDump(json_data)),
                       written |-> out.written \cup {text_file},
                       errors |-> out.errors])

ConvertResponsesToJson ==
    /\ pc = "convert"
    /\ LET out == ConvertFiles(DOMAIN response_folder, response_folder,
                      [store |-> json_folder, written |-> {}, errors |-> {}])
       IN  /\ json_folder' = out.store
           /\ json_written' = out.written
           /\ decode_errors' = out.errors
    /\ pc' = "combine"
    /\ UNCHANGED <<runs, pdf_folder, response_folder, corpus, dl, ex, ag>>

\* ------------------------------------------------------------ aggregator
RECURSIVE CombineFiles(_, _, _)
\* The loop of combine_json_files over the '.json' files `pending`:
\* combined_data[name] = json.load(f)['data']; a record with no 'data'
\* raises (KeyError / TypeError) and nothing catches it.
CombineFiles(pending, store, combined) ==
    IF pending = {} THEN [raised |-> FALSE, map |-> combined]
    ELSE LET json_file == CHOOSE f \in pending : TRUE
             loaded == JsonLoads(store[json_file])
         IN  IF ~loaded.hasData
             THEN [raised |-> TRUE, map |-> combined]
             ELSE CombineFiles(pending \ {json_file}, store,
                      Put(combined, json_file, loaded.data))

\* Mutation of CombinedData (C9): an incremental merge that keeps the
\* entries combined_data.json already has.
CombinedDataIncremental(store, previous) ==
    LET fresh == CombineFiles(DOMAIN store, store, EmptyMap)
    IN  [raised |-> fresh.raised,
         map |-> [d \in DOMAIN fresh.map \cup DOMAIN previous.map |->
                    IF d \in DOMAIN previous.map THEN previous.map[d]
                    ELSE fresh.map[d]]]

\* Mutation of CombinedData (C10): combined_data is reset inside the loop,
\* so that only the last file read stays.
CombinedDataLastOnly(store, previous) ==
    LET fresh == CombineFiles(DOMAIN store, store, EmptyMap)
    IN  [raised |-> fresh.raised,
         map |-> IF DOMAIN fresh.map = {} THEN EmptyMap
                 ELSE LET last == CHOOSE d \in DOMAIN fresh.map :
                                      \A e \in DOMAIN fresh.map : e <= d
                      IN  [d \in {last} |-> fresh.map[d]]]

\* combined_data = {} and the loop; `previous` is combined_data.json as the
\* call finds it (the file is opened with 'w' after the loop).
CombinedData(store, previous) == CombineFiles(DOMAIN store, store, EmptyMap)

CombineJsonFiles ==
    /\ pc = "combine"
    /\ LET out == CombinedData(json_folder, corpus)
       IN  IF out.raised
           THEN /\ pc' = "combine_raised"
                /\ UNCHANGED <<corpus, ag>>
           ELSE /\ pc' = "done"
                /\ corpus' = [exists |-> TRUE, map |-> out.map]
                /\ agg_store' = json_folder
                /\ agg_prev' = corpus
    /\ UNCHANGED <<runs, pdf_folder, response_folder, json_folder, dl, ex, nz>>

Next ==
    \/ Discover
    \/ DownloadFails
    \/ DownloadMeasures
    \/ DownloadLoopEnd
    \/ TrimAndFilter
    \/ EnterRun
    \/ UploadPdfs
    \/ GenerateRaises
    \/ GenerateWrites
    \/ GenerateEnd
    \/ ConvertResponsesToJson
    \/ CombineJsonFiles

Spec == Init /\ [][Next]_vars

\* One call of download_and_filter_pdfs, from main.py's start to its return.
NextDownload ==
    \/ Discover
    \/ DownloadFails
    \/ DownloadMeasures
    \/ DownloadLoopEnd
    \/ TrimAndFilter

DownloadSpec == Init /\ [][NextDownload]_vars

\* ============================================================ claims
\* ---- C1 (stated as claimed; the code violates it)
\* A record whose retrieval raised (the except branch ran for it, nothing was
\* written for it) is never a row of the DataFrame the call returns.
C1_FailedNeverRetained ==
    pc = "returned" => \A d \in Range(filtered_df) : d \notin warned

\* ---- C2
\* At every point of the retrieval loop and after it, the binaries written
\* by this call, and the quota counter, number at most the quota cap.
C2_DownloadedWithinQuota ==
    /\ Cardinality(downloaded) <= QuotaCap
    /\ valid_pdf_count <= QuotaCap

\* The cap is filled by a loop in which a retrieval also failed.
C2_Witness ==
    /\ pc = "trim" /\ Cardinality(downloaded) = QuotaCap
    /\ warned # {}

\* ---- C3
\* A document whose measured page count exceeds max_pages has no binary
\* written by this call and is no row of the returned DataFrame.
C3_OversizeAbsent ==
    \A i \in DOMAIN pdf_page_counts :
        pdf_page_counts[i] > max_pages =>
            /\ i \notin downloaded
            /\ pc = "returned" => i \notin Range(filtered_df)

\* Scenario A: three rows, the second oversize, rows 1 and 3 retained.
C3_Witness ==
    /\ pc = "returned" /\ Len(pdf_page_counts) = 3 /\ warned = {}
    /\ pdf_page_counts[2] > max_pages
    /\ filtered_df = <<1, 3>> /\ downloaded = {1, 3}

\* ---- C4
\* Once the quota counter has reached the cap the loop is over: the row that
\* filled the quota is the last one taken, and no later row is fetched, gets
\* a page count, is logged as failed, is written or is returned.
C4_EarlyTermination ==
    valid_pdf_count >= QuotaCap =>
        /\ pc # "download"
        /\ pos \in downloaded
        /\ Len(pdf_page_counts) = pos
        /\ \A i \in (pos + 1)..n :
              /\ i \notin fetched /\ i \notin warned /\ i \notin downloaded
              /\ i \notin DOMAIN pdf_page_counts
              /\ i \notin Range(filtered_df)

\* Scenario B: retainable rows only, the cap filled, a row left untouched.
C4_Witness ==
    /\ pc = "returned" /\ valid_pdf_count = QuotaCap
    /\ n = QuotaCap + 1 /\ pos = QuotaCap
    /\ Range(filtered_df) = 1..QuotaCap /\ fetched = 1..QuotaCap

\* A raw response conforms when it is a JSON object with a 'data' payload.
Conforms(text) == text.kind = "doc"

\* The corpus a parsed store stands for: id -> the 'data' payload of its record.
CorpusOf(store) == [d \in DOMAIN store |-> JsonLoads(store[d]).data]

\* ---- C5 (stated as claimed; the code violates it)
\* When the normalizer has returned, every conforming raw response has been
\* written to the parsed store by it and no non-conforming one has.
C5_MalformedNeverParsed ==
    pc = "combine" =>
        \A d \in DOMAIN response_folder :
            Conforms(response_folder[d]) <=> d \in json_written

\* ---- C6 (stated as claimed; the code violates it)
\* After a completed execution the corpus holds a document only if this
\* execution downloaded it, extracted it and parsed it.
C6_CorpusOnlyFinalized ==
    pc = "done" =>
        \A d \in DOMAIN corpus.map :
            d \in downloaded /\ d \in extracted /\ d \in json_written

\* ---- C7 (stated as claimed; the code violates it)
\* Whatever retrievals, extraction calls and parses failed, once run() has
\* got through extraction and normalization it ends with the corpus written
\* and holding every document whose parsed record has a 'data' payload.
C7_FailuresIsolated ==
    pc \in {"done", "combine_raised"} =>
        \A d \in DOMAIN json_folder :
            JsonLoads(json_folder[d]).hasData =>
                /\ corpus.exists
                /\ d \in DOMAIN corpus.map
                /\ corpus.map[d] = JsonLoads(json_folder[d]).data

\* ---- C8 (stated as claimed; the code violates it)
\* No extraction call starts while the delay owed after the previous call
\* has not been applied.
C8_DelayBetweenCalls ==
    [][calls' = calls + 1 => ~delay_pending]_vars

\* ---- C9
\* Every aggregation that completes writes exactly the corpus of the parsed
\* store it read, whatever combined_data.json held before; and one that
\* reads the store the last completed aggregation read leaves
\* combined_data.json as that aggregation wrote it.
C9_AggregationIdempotent ==
    [][(pc = "combine" /\ pc' # "combine") =>
         /\ pc' = "done" =>
               corpus' = [exists |-> TRUE, map |-> CorpusOf(json_folder)]
         /\ (corpus.exists /\ json_folder = agg_store) => corpus' = corpus
      ]_vars

\* A second aggregation found a non-empty corpus and wrote the same corpus.
C9_Witness ==
    /\ pc = "done" /\ agg_prev.exists
    /\ DOMAIN corpus.map # {} /\ agg_prev = corpus

\* ---- C10
\* An aggregation that completes on the store of the last completed
\* aggregation plus one new record writes a corpus whose keys are the old
\* keys plus the new id, the new entry being the new record's 'data'
\* payload and every old entry being as it was.
C10_AddOneRecord ==
    [][(/\ pc = "combine" /\ pc' = "done" /\ corpus.exists
        /\ DOMAIN agg_store \subseteq DOMAIN json_folder
        /\ Cardinality(DOMAIN json_folder \ DOMAIN agg_store) = 1
        /\ \A e \in DOMAIN agg_store : json_folder[e] = agg_store[e])
       =>
       (\E d \in DOMAIN json_folder \ DOMAIN agg_store :
          /\ DOMAIN corpus'.map = DOMAIN corpus.map \cup {d}
          /\ d \notin DOMAIN corpus.map
          /\ corpus'.map[d] = JsonLoads(json_folder[d]).data
          /\ \A e \in DOMAIN corpus.map : corpus'.map[e] = corpus.map[e])
      ]_vars

\* A second aggregation found a non-empty corpus and added one document.
C10_Witness ==
    /\ pc = "done" /\ agg_prev.exists /\ DOMAIN agg_prev.map # {}
    /\ DOMAIN agg_prev.map \subseteq DOMAIN corpus.map
    /\ Cardinality(DOMAIN corpus.map \ DOMAIN agg_prev.map) = 1
    /\ \A e \in DOMAIN agg_prev.map : corpus.map[e] = agg_prev.map[e]

\* ---- C11
\* During and after the loop of download_and_filter_pdfs the page-count list
\* has one entry per row taken, the rows taken being a prefix of df in
\* discovery order; entry i is row i's own: the sentinel when row i's
\* retrieval raised, otherwise a count telling whether row i's binary was
\* written. The returned rows are, in increasing row order, the rows of that
\* prefix whose entry is at most max_pages.
C11_PageCountsAligned ==
    /\ Len(pdf_page_counts) = pos /\ pos <= n
    /\ fetched = 1..pos
    /\ \A i \in 1..pos :
          /\ i \in warned => pdf_page_counts[i] = FailedPageCount
          /\ i \in downloaded <=>
                (i \notin warned /\ pdf_page_counts[i] <= max_pages)
    /\ pc = "returned" =>
          /\ \A j, k \in DOMAIN filtered_df :
                j < k => filtered_df[j] < filtered_df[k]
          /\ Range(filtered_df) =
                {i \in 1..pos : pdf_page_counts[i] <= max_pages}

\* A call that met a failure, an oversize document and a retained one: the
\* failed row and the retained row are returned.
C11_Witness ==
    /\ pc = "returned" /\ warned # {} /\ downloaded # {}
    /\ \E i \in 1..pos : pdf_page_counts[i] > max_pages
    /\ Len(filtered_df) = 2
====
